---- MODULE Spec2Model ----
(***************************************************************************)
(* A state-machine model of sl.c, the public entry points of the sigil     *)
(* library: the transform stack, the state registers, the frame timer and  *)
(* the flush discipline of the point, line and text batches.               *)
(*                                                                         *)
(* sl.c is the only translation unit modelled from its code.  What lives   *)
(* behind the sli* / transform.h / GL calls (the batches themselves, the   *)
(* matrix arithmetic, the window flag) is modelled from the written        *)
(* contract of those collaborators.                                        *)
(***************************************************************************)
EXTENDS Integers, Sequences, FiniteSets, TLC

\* ------------------------------------------------------------------ bounds

\* Public calls made in one run.
MaxCalls == 4

\* ------------------------------------------------------- program constants

SL_MATRIX_STACK_SIZE == 32

\* Time is counted in ticks of 10^-8 s, so the three constants are integers.
IDEAL_FRAME_TIME == 1666667
SL_MIN_DELTA_TIME == 1000
SL_MAX_DELTA_TIME == 50000000

SL_ALIGN_CENTER == 0
SL_ALIGN_RIGHT == 1
SL_ALIGN_LEFT == 2

\* ------------------------------------------------------------ input sets

\* Values sliGetTime() may return.  Relative to the initial timestamp and to
\* each other they give a negative difference, one below the minimum, the
\* minimum itself, one strictly inside the range, the maximum and one above.
TimeSamples ==
    { 0,
      IDEAL_FRAME_TIME + SL_MIN_DELTA_TIME - 1,
      IDEAL_FRAME_TIME + SL_MIN_DELTA_TIME,
      IDEAL_FRAME_TIME + SL_MAX_DELTA_TIME,
      IDEAL_FRAME_TIME + SL_MAX_DELTA_TIME + 1 }

AlignInputs == { -1, 0, 1, 2, 3 }
TranslateInputs == { <<3, 1>> }
ScaleInputs == { <<2, 5>> }
RotateInputs == { 90 }
ColorInputs == { <<0, 1, 0, 1>> }
PairInputs == { <<2, 3>> }
DrawPos == <<1, 2>>
DrawSize == <<2, 3>>
LinePos2 == <<4, 6>>
TextWidths == { 4, 10 }
LoadResults == { -1, 7 }

\* A run starts right after program start, or after the program has opened
\* with that many slPush calls and nothing else (slPush needs no window).
StartDepths == { 0, SL_MATRIX_STACK_SIZE - 2 }

VARIABLES
    process,          \* "running", "exit1" (exit(1) was called) or "crashed"
    windowOpen,       \* what sliIsWindowOpen() answers
    slMatrixStack,    \* the 32 slots, held as the slots that are not all zero
    slCurrentMatrix,  \* the slot the pointer designates
    slStackSize,
    slForeColor,
    slSpriteScroll,
    slSpriteTiling,
    slTextAlign,
    slDeltaTime,
    slOldFrameTime,
    slNewFrameTime,
    points,           \* pending point batch
    lines,            \* pending line batch
    texts,            \* pending text batch
    overtaken,        \* has the backend been handed a primitive while an
                      \* older one of another kind stayed pending
    blendAdditive,    \* the blend function glBlendFunc last selected
    lastOp,           \* the public call that ran last
    lastArg,          \* its argument or the backend's answer, where a claim needs it
    lastCalls,        \* the backend calls it issued, in order
    lastResult,       \* its return value, where it has one
    lastFlushed,      \* how many points, lines, texts its flushes submitted
    pushes,           \* successful slPush calls since program start
    pops,             \* successful slPop calls since program start
    nCalls,           \* public calls made in this run
    rendered,         \* has slRender run at all
    sound,            \* the one loaded sound: "stopped", "playing", "paused"
    copied,           \* per depth: the matrix the last push to it copied,
                      \* post-multiplied by the transforms applied since
    saved             \* per depth: the matrix it held just before the last
                      \* push made from it

\* The six area shapes, named as in slX and sliX.
AreaShapes ==
    { "TriangleFill", "TriangleOutline", "RectangleFill", "RectangleOutline",
      "CircleFill", "CircleOutline" }

\* The backend draws of the area shapes.
ShapeDraws == { "sli" \o sh : sh \in AreaShapes }

\* The kinds of primitive.
Kinds == { "shape", "sprite", "point", "line", "text" }

stackVars == <<slMatrixStack, slCurrentMatrix, slStackSize>>
regVars == <<slForeColor, slSpriteScroll, slSpriteTiling, slTextAlign>>
timeVars == <<slDeltaTime, slOldFrameTime, slNewFrameTime, rendered>>
batchVars == <<points, lines, texts, overtaken>>
countVars == <<pushes, pops, copied, saved>>
backendVars == <<windowOpen, blendAdditive, sound>>
vars == <<process, windowOpen, slMatrixStack, slCurrentMatrix, slStackSize,
          slForeColor, slSpriteScroll, slSpriteTiling, slTextAlign,
          slDeltaTime, slOldFrameTime, slNewFrameTime, points, lines, texts,
          overtaken,
          blendAdditive, lastOp, lastArg, lastCalls, lastResult, lastFlushed,
          pushes, pops, nCalls, rendered, sound, copied, saved>>

Slots == 0 .. (SL_MATRIX_STACK_SIZE - 1)

\* ------------------------------------------------------------ util/transform

\* A Mat4 restricted to the entries 2D transforms touch: columns 0 and 1
\* (xx,xy) (yx,yy), the translation column (tx,ty) and its w entry.
Mat(xx, xy, yx, yy, tx, ty, w) ==
    [xx |-> xx, xy |-> xy, yx |-> yx, yy |-> yy, tx |-> tx, ty |-> ty, w |-> w]

\* A static Mat4 before anything is stored in it.
zeroMat == Mat(0, 0, 0, 0, 0, 0, 0)

identity == Mat(1, 0, 0, 1, 0, 0, 1)

\* m * T(x, y)
translate(m, x, y) ==
    [m EXCEPT !.tx = m.xx * x + m.yx * y + m.tx,
              !.ty = m.xy * x + m.yy * y + m.ty]

\* m * S(x, y)
scale(m, x, y) ==
    [m EXCEPT !.xx = m.xx * x, !.xy = m.xy * x,
              !.yx = m.yx * y, !.yy = m.yy * y]

Cos(deg) == CASE deg % 360 = 0 -> 1
              [] deg % 360 = 90 -> 0
              [] deg % 360 = 180 -> -1
              [] OTHER -> 0

Sin(deg) == CASE deg % 360 = 0 -> 0
              [] deg % 360 = 90 -> 1
              [] deg % 360 = 180 -> 0
              [] OTHER -> -1

\* m * R(degrees), degrees a multiple of 90
rotate(m, degrees) ==
    [m EXCEPT !.xx = m.xx * Cos(degrees) + m.yx * Sin(degrees),
              !.xy = m.xy * Cos(degrees) + m.yy * Sin(degrees),
              !.yx = m.yx * Cos(degrees) - m.xx * Sin(degrees),
              !.yy = m.yy * Cos(degrees) - m.xy * Sin(degrees)]

\* The array of 32 matrices is static, so a slot nothing was stored in reads
\* as the zero matrix.  An array is held as the map of its non-zero slots.
NoSlots == [i \in {} |-> zeroMat]

Slot(stack, i) == IF i \in DOMAIN stack THEN stack[i] ELSE zeroMat

Store(stack, i, m) ==
    LET dom == IF m = zeroMat THEN DOMAIN stack \ {i} ELSE DOMAIN stack \cup {i}
    IN  [j \in dom |-> IF j = i THEN m ELSE stack[j]]

\* ------------------------------------------------------------------- Init

\* Mutant: the delta starts at the minimum instead of the ideal frame time.
InitialDeltaTimeIsMinimum == SL_MIN_DELTA_TIME

\* What slGetDeltaTime answers before any frame was rendered.
InitialDeltaTime == IDEAL_FRAME_TIME

\* The statics of sl.c as the loader leaves them, then d calls of slPush:
\* every slot still holds the zero matrix, and only the depth, the pointer
\* and the count of pushes have moved.
Init ==
    /\ process = "running"
    /\ windowOpen = FALSE
    /\ slMatrixStack = NoSlots
    /\ \E d \in StartDepths :
          /\ slCurrentMatrix = d
          /\ slStackSize = d
          /\ pushes = d
    /\ slForeColor = <<1, 1, 1, 1>>
    /\ slSpriteScroll = <<0, 0>>
    /\ slSpriteTiling = <<1, 1>>
    /\ slTextAlign = SL_ALIGN_LEFT
    /\ slDeltaTime = InitialDeltaTime
    /\ slOldFrameTime = 0
    /\ slNewFrameTime = IDEAL_FRAME_TIME
    /\ points = <<>>
    /\ lines = <<>>
    /\ texts = <<>>
    /\ overtaken = FALSE
    /\ blendAdditive = FALSE
    /\ lastOp = "none"
    /\ lastArg = 0
    /\ lastCalls = <<>>
    /\ lastResult = 0
    /\ lastFlushed = <<0, 0, 0>>
    /\ pops = 0
    /\ nCalls = 0
    /\ rendered = FALSE
    /\ sound = "stopped"
    /\ copied = NoSlots
    /\ saved = NoSlots

\* ------------------------------------------------------- call bookkeeping

\* A public call starts: the process is alive and the run has calls left.
Begin ==
    /\ process = "running"
    /\ nCalls < MaxCalls
    /\ nCalls' = nCalls + 1

HasCall(calls, c) == \E i \in 1 .. Len(calls) : calls[i] = c

\* How many pending points, lines and texts the flush calls among `calls`
\* hand to the backend.
Flushed(calls) ==
    << IF HasCall(calls, "sliPointsFlush") THEN Len(points) ELSE 0,
       IF HasCall(calls, "sliLinesFlush") THEN Len(lines) ELSE 0,
       IF HasCall(calls, "sliTextFlush") THEN Len(texts) ELSE 0 >>

\* The call ran to its return.
Returns(op, arg, calls, result) ==
    /\ process' = "running"
    /\ lastOp' = op
    /\ lastArg' = arg
    /\ lastCalls' = calls
    /\ lastResult' = result
    /\ lastFlushed' = Flushed(calls)

\* The call printed its message and called exit(1).
Fatal(op, arg, calls) ==
    /\ process' = "exit1"
    /\ lastOp' = op
    /\ lastArg' = arg
    /\ lastCalls' = calls
    /\ lastResult' = 0
    /\ lastFlushed' = <<0, 0, 0>>

\* The call died inside the backend: it reached the windowing, graphics or
\* audio library while no window (and so no context) existed.  Whether the
\* library tolerates that is not decided by sl.c, so both outcomes are kept.
Crashed(op, arg, calls) ==
    /\ windowOpen = FALSE
    /\ process' = "crashed"
    /\ lastOp' = op
    /\ lastArg' = arg
    /\ lastCalls' = calls
    /\ lastResult' = 0
    /\ lastFlushed' = <<0, 0, 0>>

\* ------------------------------------------------------------ frame timing

slGetDeltaTime == slDeltaTime

\* ---------------------------------------------------------- transformations

\* *slCurrentMatrix
Current == Slot(slMatrixStack, slCurrentMatrix)

\* Mutant: the capacity test is off by one.
PushAllowedOffByOne == slStackSize < SL_MATRIX_STACK_SIZE

PushAllowed == slStackSize < SL_MATRIX_STACK_SIZE - 1

slPush ==
    /\ Begin
    /\ IF PushAllowed
       THEN /\ slStackSize' = slStackSize + 1
            /\ slCurrentMatrix' = slCurrentMatrix + 1
            /\ slMatrixStack' = Store(slMatrixStack, slCurrentMatrix + 1, Current)
            /\ pushes' = pushes + 1
            /\ copied' = Store(copied, slStackSize + 1, Current)
            /\ saved' = Store(saved, slStackSize, Current)
            /\ Returns("slPush", 0, <<>>, 0)
       ELSE /\ Fatal("slPush", 0, <<>>)
            /\ UNCHANGED <<stackVars, pushes, copied, saved>>
    /\ UNCHANGED <<regVars, timeVars, batchVars, backendVars, pops>>

\* Mutant: the underflow test admits depth 0.
PopAllowedAtBase == slStackSize >= 0

PopAllowed == slStackSize > 0

\* Mutant: slPop moves the pointer and forgets the depth.
slPopKeepsSize ==
    /\ Begin
    /\ IF PopAllowed
       THEN /\ slStackSize' = slStackSize
            /\ slCurrentMatrix' = slCurrentMatrix - 1
            /\ pops' = pops + 1
            /\ Returns("slPop", 0, <<>>, 0)
       ELSE /\ Fatal("slPop", 0, <<>>)
            /\ UNCHANGED <<slStackSize, slCurrentMatrix, pops>>
    /\ UNCHANGED <<slMatrixStack, pushes, copied, saved>>
    /\ UNCHANGED <<regVars, timeVars, batchVars, backendVars>>

slPop ==
    /\ Begin
    /\ IF PopAllowed
       THEN /\ slStackSize' = slStackSize - 1
            /\ slCurrentMatrix' = slCurrentMatrix - 1
            /\ pops' = pops + 1
            /\ Returns("slPop", 0, <<>>, 0)
       ELSE /\ Fatal("slPop", 0, <<>>)
            /\ UNCHANGED <<slStackSize, slCurrentMatrix, pops>>
    /\ UNCHANGED <<slMatrixStack, pushes, copied, saved>>
    /\ UNCHANGED <<regVars, timeVars, batchVars, backendVars>>

\* The history of the current depth: what `copied` holds for it.
CopiedTop == Slot(copied, slStackSize)

\* The three transforms store the transformed current matrix in the slot the
\* pointer designates; `c` is the same transform applied to the history.
Transform(op, m, c) ==
    /\ Begin
    /\ slMatrixStack' = Store(slMatrixStack, slCurrentMatrix, m)
    /\ copied' = Store(copied, slStackSize, c)
    /\ Returns(op, 0, <<>>, 0)
    /\ UNCHANGED <<slCurrentMatrix, slStackSize, pushes, pops, saved>>
    /\ UNCHANGED <<regVars, timeVars, batchVars, backendVars>>

slTranslate ==
    \E a \in TranslateInputs :
        Transform("slTranslate", translate(Current, a[1], a[2]),
                  translate(CopiedTop, a[1], a[2]))

slRotate ==
    \E d \in RotateInputs :
        Transform("slRotate", rotate(Current, d), rotate(CopiedTop, d))

slScale ==
    \E a \in ScaleInputs :
        Transform("slScale", scale(Current, a[1], a[2]), scale(CopiedTop, a[1], a[2]))

\* --------------------------------------------------- the batches (backend)

\* One batch after the backend has run `calls` in order: its flush call
\* submits and discards the content, its queue call appends `item`.
RECURSIVE BatchAfter(_, _, _, _, _)
BatchAfter(calls, batch, flushCall, queueCall, item) ==
    IF calls = <<>>
    THEN batch
    ELSE LET c == Head(calls)
             b == IF c = flushCall THEN <<>>
                  ELSE IF c = queueCall THEN Append(batch, item)
                  ELSE batch
         IN  BatchAfter(Tail(calls), b, flushCall, queueCall, item)

\* Pending primitives are numbered in the order of their draw calls.
IssuedIn(batch) == { batch[i].issued : i \in 1 .. Len(batch) }

Newest(numbers) == CHOOSE n \in numbers : \A m \in numbers : m <= n

ThisDraw ==
    1 + Newest({0} \cup IssuedIn(points) \cup IssuedIn(lines) \cup IssuedIn(texts))

\* The numbers of the primitives of one batch that a handler hands to the
\* backend: those of the batch and the one it queues, less those it leaves.
Handed(calls, old, new, queueCall) ==
    (IssuedIn(old) \cup (IF HasCall(calls, queueCall) THEN {ThisDraw} ELSE {}))
        \ IssuedIn(new)

\* The same for the kinds that are drawn at once.
Drawn(calls, draws) ==
    IF \E i \in 1 .. Len(calls) : calls[i] \in draws THEN {ThisDraw} ELSE {}

\* The three batches after the backend calls of one handler.
RunBatches(calls, item) ==
    /\ points' = BatchAfter(calls, points, "sliPointsFlush", "sliPoint", item)
    /\ lines' = BatchAfter(calls, lines, "sliLinesFlush", "sliLine", item)
    /\ texts' = BatchAfter(calls, texts, "sliTextFlush", "sliText", item)
    /\ LET handed == [k \in Kinds |->
                        CASE k = "point" -> Handed(calls, points, points', "sliPoint")
                          [] k = "line" -> Handed(calls, lines, lines', "sliLine")
                          [] k = "text" -> Handed(calls, texts, texts', "sliText")
                          [] k = "sprite" -> Drawn(calls, {"sliSprite"})
                          [] k = "shape" -> Drawn(calls, ShapeDraws)]
           left == [k \in Kinds |->
                      CASE k = "point" -> IssuedIn(points')
                        [] k = "line" -> IssuedIn(lines')
                        [] k = "text" -> IssuedIn(texts')
                        [] OTHER -> {}]
       IN  overtaken' =
               \/ overtaken
               \/ \E k \in Kinds, j \in Kinds :
                      /\ j # k
                      /\ \E p \in left[k], q \in handed[j] : p < q

\* What a queued primitive carries: its model-view matrix, the blend function
\* selected when it was queued and the number of the draw call that issued it.
Item(mv) == [mv |-> mv, additive |-> blendAdditive, issued |-> ThisDraw]

NoItem == Item(zeroMat)

\* ---------------------------------------------------------- window commands

\* slInitResources / slKillResources: the per-kind init and destroy entry
\* points create and discard the batches.
InitCalls ==
    <<"sliShadersInit", "sliTriangleInit", "sliRectangleInit", "sliCircleInit",
      "sliPointInit", "sliLineInit", "sliSpriteInit", "sliTextInit", "sliSoundInit">>

KillCalls ==
    <<"sliTextDestroy", "sliSpriteDestroy", "sliLineDestroy", "sliPointDestroy",
      "sliCircleDestroy", "sliRectangleDestroy", "sliTriangleDestroy",
      "sliShadersDestroy", "sliSoundDestroy">>

\* The slot slWindow stores identity() in.
WindowSlot == slCurrentMatrix

slWindow ==
    /\ Begin
    /\ IF ~windowOpen
       THEN \/ /\ windowOpen' = TRUE
               /\ blendAdditive' = FALSE
               /\ slForeColor' = <<1, 1, 1, 1>>
               /\ points' = <<>> /\ lines' = <<>> /\ texts' = <<>>
               /\ UNCHANGED overtaken
               /\ sound' = "stopped"
               /\ slMatrixStack' = Store(slMatrixStack, WindowSlot, identity)
               /\ Returns("slWindow", 0,
                          <<"sliOpenWindow", "glViewport", "glewInit", "glGetError",
                            "glEnable", "glBlendFunc", "glDisable", "glClearColor">>
                              \o InitCalls, 0)
            \/ \* glewInit() did not return GLEW_OK
               /\ windowOpen' = TRUE
               /\ Fatal("slWindow", 0, <<"sliOpenWindow", "glViewport", "glewInit">>)
               /\ UNCHANGED <<blendAdditive, slForeColor, batchVars, sound, slMatrixStack>>
       ELSE /\ Fatal("slWindow", 0, <<>>)
            /\ UNCHANGED <<windowOpen, blendAdditive, slForeColor, batchVars, sound,
                           slMatrixStack>>
    /\ UNCHANGED <<slCurrentMatrix, slStackSize, slSpriteScroll, slSpriteTiling,
                   slTextAlign, timeVars, countVars>>

\* Mutant: slClose tears down without the window check.
CloseAllowedAlways == TRUE

\* The check slClose makes before it tears down.
CloseAllowed == windowOpen

slClose ==
    /\ Begin
    /\ IF CloseAllowed
       THEN /\ windowOpen' = FALSE
            /\ points' = <<>> /\ lines' = <<>> /\ texts' = <<>>
            /\ UNCHANGED overtaken
            /\ sound' = "stopped"
            /\ Returns("slClose", 0, KillCalls \o <<"sliCloseWindow">>, 0)
       ELSE /\ Fatal("slClose", 0, <<>>)
            /\ UNCHANGED <<windowOpen, batchVars, sound>>
    /\ UNCHANGED <<stackVars, regVars, timeVars, countVars, blendAdditive>>

slShouldClose ==
    /\ Begin
    /\ IF ~windowOpen
       THEN Fatal("slShouldClose", 0, <<>>)
       ELSE \E r \in {0, 1} : Returns("slShouldClose", 0, <<"sliShouldClose">>, r)
    /\ UNCHANGED <<stackVars, regVars, timeVars, batchVars, backendVars, countVars>>

\* ---------------------------------------------------------------- rendering

\* Mutant: the upper clamp is missing.
ClampDeltaNoMax(raw) == IF raw < SL_MIN_DELTA_TIME THEN SL_MIN_DELTA_TIME ELSE raw

\* The comparisons slRender applies to the raw difference, in its order.
ClampDelta(raw) ==
    LET low == IF raw < SL_MIN_DELTA_TIME THEN SL_MIN_DELTA_TIME ELSE raw
    IN  IF low > SL_MAX_DELTA_TIME THEN SL_MAX_DELTA_TIME ELSE low

\* Mutant: the clock is read before the frame is presented and the text batch
\* is left pending.
RenderCallsClockFirst ==
    <<"sliGetTime", "sliPointsFlush", "sliLinesFlush", "sliPollAndSwap", "glClear">>

\* The backend calls of slRender up to the clock sample.
RenderCalls ==
    <<"sliPointsFlush", "sliLinesFlush", "sliTextFlush", "sliPollAndSwap",
      "glClear", "sliGetTime">>

slRender ==
    /\ Begin
    /\ \/ \E now \in TimeSamples :
             /\ RunBatches(RenderCalls, NoItem)
             /\ slOldFrameTime' = slNewFrameTime
             /\ slNewFrameTime' = now
             /\ slDeltaTime' = ClampDelta(now - slNewFrameTime)
             /\ rendered' = TRUE
             /\ Returns("slRender", 0, RenderCalls, 0)
       \/ /\ Crashed("slRender", 0, <<Head(RenderCalls)>>)
          /\ UNCHANGED <<batchVars, timeVars>>
    /\ UNCHANGED <<stackVars, regVars, backendVars, countVars>>

\* ------------------------------------------------------------ state setters

slSetBackColor ==
    /\ Begin
    /\ \/ Returns("slSetBackColor", 0, <<"glClearColor">>, 0)
       \/ Crashed("slSetBackColor", 0, <<"glClearColor">>)
    /\ UNCHANGED <<stackVars, regVars, timeVars, batchVars, backendVars, countVars>>

slSetForeColor ==
    /\ Begin
    /\ \E c \in ColorInputs : slForeColor' = c
    /\ Returns("slSetForeColor", 0, <<>>, 0)
    /\ UNCHANGED <<stackVars, slSpriteScroll, slSpriteTiling, slTextAlign, timeVars,
                   batchVars, backendVars, countVars>>

\* Mutant: the blend function is changed before the batches are flushed.
BlendCallsBlendFirst == <<"glBlendFunc", "sliPointsFlush", "sliLinesFlush">>

\* The backend calls of slSetAdditiveBlend, in its order.
BlendCalls == <<"sliPointsFlush", "sliLinesFlush", "glBlendFunc">>

slSetAdditiveBlend ==
    /\ Begin
    /\ \/ \E additive \in BOOLEAN :
             /\ RunBatches(BlendCalls, NoItem)
             /\ blendAdditive' = additive
             /\ Returns("slSetAdditiveBlend", IF additive THEN 1 ELSE 0, BlendCalls, 0)
       \/ /\ Crashed("slSetAdditiveBlend", 0, <<Head(BlendCalls)>>)
          /\ UNCHANGED <<batchVars, blendAdditive>>
    /\ UNCHANGED <<stackVars, regVars, timeVars, windowOpen, sound, countVars>>

slSetSpriteTiling ==
    /\ Begin
    /\ \E a \in PairInputs : slSpriteTiling' = a
    /\ Returns("slSetSpriteTiling", 0, <<>>, 0)
    /\ UNCHANGED <<stackVars, slForeColor, slSpriteScroll, slTextAlign, timeVars,
                   batchVars, backendVars, countVars>>

\* Mutant: the scroll setter stores its arguments in the tiling register.
slSetSpriteScrollWritesTiling ==
    /\ Begin
    /\ \E a \in PairInputs : slSpriteTiling' = a
    /\ Returns("slSetSpriteScroll", 0, <<>>, 0)
    /\ UNCHANGED <<stackVars, slForeColor, slSpriteScroll, slTextAlign, timeVars,
                   batchVars, backendVars, countVars>>

slSetSpriteScroll ==
    /\ Begin
    /\ \E a \in PairInputs : slSpriteScroll' = a
    /\ Returns("slSetSpriteScroll", 0, <<>>, 0)
    /\ UNCHANGED <<stackVars, slForeColor, slSpriteTiling, slTextAlign, timeVars,
                   batchVars, backendVars, countVars>>

\* Mutant: the range test lost its lower bound.
AlignAcceptedNoLowerBound(fontAlign) == fontAlign <= 2

AlignAccepted(fontAlign) == fontAlign >= 0 /\ fontAlign <= 2

slSetTextAlign ==
    /\ Begin
    /\ \E fontAlign \in AlignInputs :
          IF AlignAccepted(fontAlign)
          THEN /\ slTextAlign' = fontAlign
               /\ Returns("slSetTextAlign", fontAlign, <<>>, 0)
          ELSE /\ Fatal("slSetTextAlign", fontAlign, <<>>)
               /\ UNCHANGED slTextAlign
    /\ UNCHANGED <<stackVars, slForeColor, slSpriteScroll, slSpriteTiling, timeVars,
                   batchVars, backendVars, countVars>>

\* -------------------------------------------------------------- draw calls

\* A draw handler: the backend runs its calls in order, or dies in the first.
Draw(op, arg, calls, item) ==
    /\ Begin
    /\ \/ /\ RunBatches(calls, item)
          /\ Returns(op, arg, calls, 0)
       \/ /\ Crashed(op, 0, <<Head(calls)>>)
          /\ UNCHANGED batchVars
    /\ UNCHANGED <<stackVars, regVars, timeVars, backendVars, countVars>>

\* Mutant: a shape flushes what slText flushes and forgets the text batch.
ShapeCallsNoTextFlush(draw) == <<"sliPointsFlush", "sliLinesFlush", draw>>

\* slTriangleFill .. slCircleOutline and slSprite: flush all three batches,
\* then the shape's own backend draw.
ShapeCalls(draw) == <<"sliPointsFlush", "sliLinesFlush", "sliTextFlush", draw>>

\* The model-view matrix of a shape: the current matrix translated to the
\* position and, except for circles, scaled to the size.
ShapeModelview(sh) ==
    LET modelview == translate(Current, DrawPos[1], DrawPos[2])
    IN  IF sh \in {"CircleFill", "CircleOutline"}
        THEN modelview
        ELSE scale(modelview, DrawSize[1], DrawSize[2])

slShape ==
    \E sh \in AreaShapes :
        Draw("sl" \o sh, 0, ShapeCalls("sli" \o sh), Item(ShapeModelview(sh)))

slSprite ==
    Draw("slSprite", 0, ShapeCalls("sliSprite"), Item(ShapeModelview("Sprite")))

\* Mutant: slPoint flushes all three batches, its own included.
PointCallsFlushOwn ==
    <<"sliPointsFlush", "sliLinesFlush", "sliTextFlush", "sliPoint">>

PointCalls == <<"sliLinesFlush", "sliTextFlush", "sliPoint">>

slPoint ==
    Draw("slPoint", 0, PointCalls,
         Item(translate(Current, DrawPos[1], DrawPos[2])))

\* Mutant: slLine leaves the text batch pending.
LineCallsNoTextFlush == <<"sliPointsFlush", "sliLine">>

LineCalls == <<"sliPointsFlush", "sliTextFlush", "sliLine">>

\* sliLine is handed the translation columns of the two transformed ends.
slLine ==
    LET modelview1 == translate(Current, DrawPos[1], DrawPos[2])
        modelview2 == translate(Current, LinePos2[1], LinePos2[2])
    IN  Draw("slLine", 0, LineCalls,
             [x1 |-> modelview1.tx, y1 |-> modelview1.ty,
              x2 |-> modelview2.tx, y2 |-> modelview2.ty,
              additive |-> blendAdditive, issued |-> ThisDraw])

\* Mutant: the two alignment branches are exchanged.
AlignOffsetExchanged(width) ==
    IF slTextAlign = SL_ALIGN_CENTER THEN -width
    ELSE IF slTextAlign = SL_ALIGN_RIGHT THEN -(width \div 2)
    ELSE 0

\* The x offset slText adds for the stored alignment; width is what
\* slGetTextWidth(text) measured.
AlignOffset(width) ==
    IF slTextAlign = SL_ALIGN_CENTER THEN -(width \div 2)
    ELSE IF slTextAlign = SL_ALIGN_RIGHT THEN -width
    ELSE 0

TextCalls == <<"sliPointsFlush", "sliLinesFlush", "sliText">>

slText ==
    \E width \in TextWidths :
        Draw("slText", width, TextCalls,
             Item(translate(translate(Current, DrawPos[1], DrawPos[2]),
                            AlignOffset(width), 0)))

\* ------------------------------------------------------ loading and fonts

\* Mutant: the loaders are reached without the window check.
LoadAllowedAlways == TRUE

\* The check slLoadTexture and slLoadWAV make before they load.
LoadAllowed == windowOpen

\* slLoadTexture and slLoadWAV: the loader's result behind a window check.
\* lastArg records what the loader answered, lastResult what the call returns.
Load(op, loader) ==
    /\ Begin
    /\ IF LoadAllowed
       THEN \E r \in LoadResults : Returns(op, r, <<loader>>, r)
       ELSE Fatal(op, 0, <<>>)
    /\ UNCHANGED <<stackVars, regVars, timeVars, batchVars, backendVars, countVars>>

slLoadTexture == Load("slLoadTexture", "loadOpenGLTexture")

slLoadWAV == Load("slLoadWAV", "sliLoadWAV")

slSetFont ==
    /\ Begin
    /\ IF windowOpen
       THEN Returns("slSetFont", 0, <<"sliFont">>, 0)
       ELSE Fatal("slSetFont", 0, <<>>)
    /\ UNCHANGED <<stackVars, regVars, timeVars, batchVars, backendVars, countVars>>

\* Entry points that forward to one backend call without any check and
\* leave the state of sl.c alone.
Forwarders ==
    { <<"slSetFontSize", "sliFontSize">>,
      <<"slGetTextWidth", "sliTextWidth">>,
      <<"slGetTextHeight", "sliTextHeight">>,
      <<"slGetKey", "sliGetKey">>,
      <<"slGetMouseButton", "sliGetMouseButton">>,
      <<"slGetMousePos", "sliGetMousePos">> }

slForward ==
    /\ Begin
    /\ \E f \in Forwarders :
          \/ Returns(f[1], 0, <<f[2]>>, 0)
          \/ Crashed(f[1], 0, <<f[2]>>)
    /\ UNCHANGED <<stackVars, regVars, timeVars, batchVars, backendVars, countVars>>

\* ------------------------------------------------------------------- sound

\* Mutant: slSoundPauseAll issues the backend's pause-all.
SoundCallPauseAllPauses(op) ==
    CASE op = "slSoundPlay" -> "sliSoundPlay"
      [] op = "slSoundLoop" -> "sliSoundLoop"
      [] op = "slSoundPause" -> "sliSoundPause"
      [] op = "slSoundStop" -> "sliSoundStop"
      [] op = "slSoundPauseAll" -> "sliSoundPauseAll"
      [] op = "slSoundResumeAll" -> "sliSoundResumeAll"
      [] op = "slSoundStopAll" -> "sliSoundStopAll"
      [] op = "slSoundPlaying" -> "sliSoundPlaying"
      [] op = "slSoundLooping" -> "sliSoundLooping"

\* The backend call each sound entry point issues.
SoundCall(op) ==
    CASE op = "slSoundPlay" -> "sliSoundPlay"
      [] op = "slSoundLoop" -> "sliSoundLoop"
      [] op = "slSoundPause" -> "sliSoundPause"
      [] op = "slSoundStop" -> "sliSoundStop"
      [] op = "slSoundPauseAll" -> "sliSoundResumeAll"
      [] op = "slSoundResumeAll" -> "sliSoundResumeAll"
      [] op = "slSoundStopAll" -> "sliSoundStopAll"
      [] op = "slSoundPlaying" -> "sliSoundPlaying"
      [] op = "slSoundLooping" -> "sliSoundLooping"

SoundOps ==
    { "slSoundPlay", "slSoundLoop", "slSoundPause", "slSoundStop", "slSoundPauseAll",
      "slSoundResumeAll", "slSoundStopAll", "slSoundPlaying", "slSoundLooping" }

\* The audio backend: the state of the sound after one of its calls.
SoundAfter(call, s) ==
    CASE call \in {"sliSoundPlay", "sliSoundLoop"} -> "playing"
      [] call \in {"sliSoundPause", "sliSoundPauseAll"} ->
             IF s = "playing" THEN "paused" ELSE s
      [] call = "sliSoundResumeAll" -> IF s = "paused" THEN "playing" ELSE s
      [] call \in {"sliSoundStop", "sliSoundStopAll"} -> "stopped"
      [] OTHER -> s

slSound ==
    /\ Begin
    /\ \E op \in SoundOps :
          \/ /\ sound' = SoundAfter(SoundCall(op), sound)
             /\ Returns(op, 0, <<SoundCall(op)>>,
                        IF op = "slSoundPlaying" /\ sound = "playing" THEN 1 ELSE 0)
          \/ /\ Crashed(op, 0, <<SoundCall(op)>>)
             /\ UNCHANGED sound
    /\ UNCHANGED <<stackVars, regVars, timeVars, batchVars, windowOpen, blendAdditive,
                   countVars>>

\* ---------------------------------------------------------- specification

Next ==
    \/ slWindow
    \/ slClose
    \/ slShouldClose
    \/ slRender
    \/ slSetBackColor
    \/ slSetForeColor
    \/ slSetAdditiveBlend
    \/ slPush
    \/ slPop
    \/ slTranslate
    \/ slRotate
    \/ slScale
    \/ slLoadTexture
    \/ slLoadWAV
    \/ slSound
    \/ slShape
    \/ slPoint
    \/ slLine
    \/ slSetSpriteTiling
    \/ slSetSpriteScroll
    \/ slSprite
    \/ slSetTextAlign
    \/ slSetFont
    \/ slForward
    \/ slText

Spec == Init /\ [][Next]_vars

\* ================================================================= claims

Running == process = "running"

Top == SL_MATRIX_STACK_SIZE - 1

\* C1: while the process lives, 0 <= slStackSize <= 31 and slCurrentMatrix
\* designates slot slStackSize of the array.
C1_DepthInRange ==
    Running =>
        /\ slStackSize >= 0
        /\ slStackSize <= Top
        /\ slCurrentMatrix = slStackSize
        /\ slCurrentMatrix \in Slots
        /\ DOMAIN slMatrixStack \subseteq Slots

\* C1 witness: a push has just taken the stack to its last slot.
C1_Witness ==
    Running /\ lastOp = "slPush" /\ slStackSize = Top /\ slCurrentMatrix = Top

\* C2: while no call was fatal, the depth is the number of pushes minus the
\* number of pops performed since program start.
C2_DepthIsPushesMinusPops == Running => slStackSize = pushes - pops

\* C2 witness: this run pushed after it popped.
C2_Witness == Running /\ lastOp = "slPush" /\ pops >= 1 /\ slStackSize >= 1

\* C3 as claimed: above the base, the current matrix is the matrix the last
\* push to this depth copied, post-multiplied by the transforms applied at
\* this depth since; and right after a pop it is what the slot held just
\* before the matching push.
C3_CurrentIsCopyTimesTransforms ==
    Running =>
        /\ slStackSize > 0 => Current = CopiedTop
        /\ lastOp = "slPop" => Current = Slot(saved, slStackSize)

\* C4: slPush exits exactly at depth 31 and then leaves depth, pointer and
\* slots alone, and otherwise deepens the stack by one; slPop exits exactly
\* at depth 0 and then leaves the depth alone, and otherwise lowers it by one.
C4_FatalExactlyAtTheEnds ==
    [][ /\ lastOp' = "slPush" =>
              /\ process' = "exit1" <=> slStackSize = Top
              /\ process' = "exit1" => UNCHANGED stackVars
              /\ process' = "running" => slStackSize' = slStackSize + 1
        /\ lastOp' = "slPop" =>
              /\ process' = "exit1" <=> slStackSize = 0
              /\ process' = "exit1" => UNCHANGED <<slStackSize, slCurrentMatrix>>
              /\ process' = "running" => slStackSize' = slStackSize - 1
      ]_vars

\* C4 witness: slPush called at depth 31 ended the process.
C4_Witness == process = "exit1" /\ lastOp = "slPush" /\ slStackSize = Top

\* ------------------------------------------------------------ flush order

FlushCalls == { "sliPointsFlush", "sliLinesFlush", "sliTextFlush" }

CallsOf(calls) == { calls[i] : i \in 1 .. Len(calls) }

Count(calls, c) == Cardinality({ i \in 1 .. Len(calls) : calls[i] = c })

\* Every a among calls comes before every b, and there is one of each.
Before(calls, a, b) ==
    /\ Count(calls, a) = 1
    /\ Count(calls, b) = 1
    /\ \A i, j \in 1 .. Len(calls) : calls[i] = a /\ calls[j] = b => i < j

ShapeOps == { "sl" \o sh : sh \in AreaShapes } \cup { "slSprite" }

\* The backend draw of a shape or sprite entry point: slX calls sliX.
OwnDraw(op) == "sli" \o SubSeq(op, 3, Len(op))

BatchesEmpty == points = <<>> /\ lines = <<>> /\ texts = <<>>

\* C5: when an area shape or a sprite has been drawn, the point, line and
\* text flushes were issued before the shape's own backend draw, and all
\* three batches are empty.
C5_ShapeFlushesAllFirst ==
    (Running /\ lastOp \in ShapeOps) =>
        /\ BatchesEmpty
        /\ \A f \in FlushCalls : Before(lastCalls, f, OwnDraw(lastOp))
        /\ lastCalls[Len(lastCalls)] = OwnDraw(lastOp)

\* C5 witness: a sprite drawn in an open window with texts pending.
C5_Witness ==
    Running /\ windowOpen /\ lastOp = "slSprite" /\ lastFlushed[3] >= 1

NonEmptyBatches ==
    Cardinality({ k \in 1 .. 3 : <<points, lines, texts>>[k] # <<>> })

\* A batched draw flushed exactly `others`, each before `queue`, and its own
\* batch is the old one with one primitive appended.
BatchedDraw(calls, others, queue, old, new) ==
    /\ CallsOf(calls) \cap FlushCalls = others
    /\ \A f \in others : Before(calls, f, queue)
    /\ Len(new) = Len(old) + 1
    /\ SubSeq(new, 1, Len(old)) = old

\* C6: slPoint flushes lines and text and appends to the point batch, slLine
\* flushes points and text and appends to the line batch, slText flushes
\* points and lines and appends to the text batch; after any draw call at
\* most one batch is non-empty.
C6_BatchedDrawFlushesTheOthers ==
    [][ process' = "running" =>
          /\ lastOp' = "slPoint" =>
                /\ BatchedDraw(lastCalls', {"sliLinesFlush", "sliTextFlush"},
                               "sliPoint", points, points')
                /\ lines' = <<>> /\ texts' = <<>>
          /\ lastOp' = "slLine" =>
                /\ BatchedDraw(lastCalls', {"sliPointsFlush", "sliTextFlush"},
                               "sliLine", lines, lines')
                /\ points' = <<>> /\ texts' = <<>>
          /\ lastOp' = "slText" =>
                /\ BatchedDraw(lastCalls', {"sliPointsFlush", "sliLinesFlush"},
                               "sliText", texts, texts')
                /\ points' = <<>> /\ lines' = <<>>
          /\ lastOp' \in ShapeOps \cup {"slPoint", "slLine", "slText"} =>
                NonEmptyBatches' <= 1
      ]_vars

\* C6 witness: a second point joined a pending point in an open window.
C6_Witness ==
    Running /\ windowOpen /\ lastOp = "slPoint" /\ Len(points) >= 2

\* C7: when slRender has returned, it issued the three flushes, then the
\* poll-and-swap, then the clear, then one clock sample as its last call,
\* and all three batches are empty.
C7_RenderOrder ==
    (Running /\ lastOp = "slRender") =>
        /\ BatchesEmpty
        /\ \A f \in FlushCalls : Before(lastCalls, f, "sliPollAndSwap")
        /\ Before(lastCalls, "sliPollAndSwap", "glClear")
        /\ Before(lastCalls, "glClear", "sliGetTime")
        /\ lastCalls[Len(lastCalls)] = "sliGetTime"

\* C7 witness: slRender returned in an open window after flushing pending lines.
C7_Witness ==
    Running /\ windowOpen /\ lastOp = "slRender" /\ lastFlushed[2] >= 1

\* C8: a slRender that returns stores the clock value it sampled, and the
\* delta it leaves is now - previous clamped into [minimum, maximum], where
\* previous is the timestamp stored before the call.
C8_DeltaIsClamped ==
    [][ (process' = "running" /\ lastOp' = "slRender") =>
          LET raw == slNewFrameTime' - slNewFrameTime
          IN  /\ slNewFrameTime' \in TimeSamples
              /\ slOldFrameTime' = slNewFrameTime
              /\ slGetDeltaTime' =
                     IF raw < SL_MIN_DELTA_TIME THEN SL_MIN_DELTA_TIME
                     ELSE IF raw > SL_MAX_DELTA_TIME THEN SL_MAX_DELTA_TIME
                     ELSE raw
      ]_vars

\* C8 witness: the second slRender of a run read a clock that ran backwards,
\* and the delta is the minimum.
C8_Witness ==
    /\ Running /\ lastOp = "slRender"
    /\ slOldFrameTime \in TimeSamples
    /\ slNewFrameTime < slOldFrameTime
    /\ slGetDeltaTime = SL_MIN_DELTA_TIME

\* C9: as long as no slRender has run, slGetDeltaTime answers the ideal frame
\* time, and no call other than slRender changes what it answers.
C9_DeltaIdealBeforeRender ==
    [][ /\ ~rendered => slGetDeltaTime = IDEAL_FRAME_TIME
        /\ ~rendered' => slGetDeltaTime' = IDEAL_FRAME_TIME
        /\ lastOp' # "slRender" => slGetDeltaTime' = slGetDeltaTime
      ]_vars

\* C9 witness: a window was opened, drawn into and closed without a frame
\* being rendered.
C9_Witness ==
    /\ Running /\ ~rendered /\ lastOp = "slClose" /\ nCalls >= 3
    /\ slGetDeltaTime = IDEAL_FRAME_TIME

AlignValues == { 0, 1, 2 }

\* C10: slSetTextAlign(v) exits and leaves the stored alignment alone when v
\* is outside {0,1,2}, returns with the alignment equal to v otherwise, and
\* the stored alignment is always in {0,1,2}.
C10_TextAlignValidated ==
    [][ /\ lastOp' = "slSetTextAlign" =>
              IF lastArg' \in AlignValues
              THEN process' = "running" /\ slTextAlign' = lastArg'
              ELSE process' = "exit1" /\ slTextAlign' = slTextAlign
        /\ slTextAlign \in AlignValues
        /\ slTextAlign' \in AlignValues
      ]_vars

\* C10 witness: slSetTextAlign(-1) ended the process after an earlier call
\* had stored another alignment.
C10_Witness ==
    /\ process = "exit1" /\ lastOp = "slSetTextAlign" /\ lastArg = -1
    /\ slTextAlign = SL_ALIGN_RIGHT

\* ---------------------------------------------------------- text alignment

\* The text queued last.
LastText == texts[Len(texts)]

\* C11: the text slText queues carries the current matrix translated by the
\* position and then by (offset, 0), the offset being 0 for left, minus half
\* the measured width for centre and minus the measured width for right.
C11_TextOffsetByAlignment ==
    (Running /\ lastOp = "slText") =>
        LET width == lastArg
            offset == CASE slTextAlign = SL_ALIGN_LEFT -> 0
                        [] slTextAlign = SL_ALIGN_CENTER -> 0 - (width \div 2)
                        [] slTextAlign = SL_ALIGN_RIGHT -> 0 - width
        IN  /\ texts # <<>>
            /\ LastText.mv =
                   translate(translate(Current, DrawPos[1], DrawPos[2]), offset, 0)

\* C11 witness: a text of width 10 drawn centred under the identity lands
\* five units left of its position.
C11_Witness ==
    /\ Running /\ windowOpen /\ lastOp = "slText" /\ lastArg = 10
    /\ slTextAlign = SL_ALIGN_CENTER
    /\ Current = identity
    /\ LastText.mv.tx = DrawPos[1] - 5
    /\ LastText.mv.ty = DrawPos[2]

\* ------------------------------------------------------------------ loading

LoadOps == { "slLoadTexture", "slLoadWAV" }

Loader(op) == IF op = "slLoadTexture" THEN "loadOpenGLTexture" ELSE "sliLoadWAV"

\* C12: a load with no window open ends the process before the loader is
\* called; a load with a window open calls the loader once, returns what it
\* answered (-1 for a failed load) and never ends the process.
C12_LoadBehindWindowCheck ==
    lastOp \in LoadOps =>
        IF windowOpen
        THEN /\ Running
             /\ lastCalls = <<Loader(lastOp)>>
             /\ lastResult = lastArg
             /\ lastResult \in LoadResults
        ELSE /\ process = "exit1"
             /\ lastCalls = <<>>

\* C12 witness: a failed sound load returned -1 and the program runs on.
C12_Witness ==
    /\ Running /\ windowOpen /\ lastOp = "slLoadWAV"
    /\ lastCalls = <<"sliLoadWAV">> /\ lastResult = 0 - 1

\* --------------------------------------------------------- window lifecycle

\* The last backend call of a handler, "" when it made none.
LastCall(calls) == IF calls = <<>> THEN "" ELSE calls[Len(calls)]

C14_WindowResetsDepthZero ==
    (Running /\ lastOp = "slWindow") => Slot(slMatrixStack, 0) = identity

\* ------------------------------------------------------------ blend, setters

\* C15: when slSetAdditiveBlend has returned, the point and the line flush
\* were each issued before the blend function was changed, the blend function
\* is the one asked for, and the point and line batches are empty.
C15_BlendFlushesPointsAndLines ==
    (Running /\ lastOp = "slSetAdditiveBlend") =>
        /\ Before(lastCalls, "sliPointsFlush", "glBlendFunc")
        /\ Before(lastCalls, "sliLinesFlush", "glBlendFunc")
        /\ lastCalls[Len(lastCalls)] = "glBlendFunc"
        /\ points = <<>> /\ lines = <<>>
        /\ blendAdditive = (lastArg = 1)

\* C15 witness: additive blending was switched on with a line pending.
C15_Witness ==
    /\ Running /\ windowOpen /\ lastOp = "slSetAdditiveBlend"
    /\ lastFlushed[2] >= 1 /\ blendAdditive

\* Everything of sl.c and of the backend that no setter may touch.
BesideRegisters ==
    <<slMatrixStack, slCurrentMatrix, slStackSize, points, lines, texts,
      slDeltaTime, slOldFrameTime, slNewFrameTime, windowOpen, blendAdditive,
      sound>>

\* C16: slSetForeColor changes the foreground colour only, slSetSpriteTiling
\* the tiling only, slSetSpriteScroll the scroll only and slSetTextAlign the
\* alignment only; each stores what it was given and leaves the other three
\* registers, the matrix stack, the batches and the frame timing as they were.
C16_SettersChangeOwnRegister ==
    [][ /\ lastOp' = "slSetForeColor" =>
              /\ slForeColor' \in ColorInputs
              /\ UNCHANGED <<slSpriteTiling, slSpriteScroll, slTextAlign, BesideRegisters>>
        /\ lastOp' = "slSetSpriteTiling" =>
              /\ slSpriteTiling' \in PairInputs
              /\ UNCHANGED <<slForeColor, slSpriteScroll, slTextAlign, BesideRegisters>>
        /\ lastOp' = "slSetSpriteScroll" =>
              /\ slSpriteScroll' \in PairInputs
              /\ UNCHANGED <<slForeColor, slSpriteTiling, slTextAlign, BesideRegisters>>
        /\ lastOp' = "slSetTextAlign" =>
              /\ process' = "running" => slTextAlign' = lastArg'
              /\ UNCHANGED <<slForeColor, slSpriteTiling, slSpriteScroll, BesideRegisters>>
      ]_vars

\* C16 witness: the scroll was set while a text was pending; the
\* tiling still has its initial value and the text is still pending.
C16_Witness ==
    /\ Running /\ lastOp = "slSetSpriteScroll"
    /\ slSpriteScroll \in PairInputs /\ slSpriteTiling \notin PairInputs
    /\ texts # <<>>

\* ------------------------------------------------------- window precondition

DrawOps == ShapeOps \cup { "slPoint", "slLine", "slText" }

\* The entry points C17 names.
WindowDependentOps ==
    { "slRender", "slShouldClose", "slClose", "slLoadTexture", "slLoadWAV",
      "slSetFont", "slSetFontSize" } \cup DrawOps

\* The backend's flush, draw, present and load calls.
WindowBoundCalls ==
    FlushCalls \cup { OwnDraw(op) : op \in DrawOps }
        \cup { "sliPollAndSwap", "loadOpenGLTexture", "sliLoadWAV" }

\* C17 as claimed: a window-dependent entry point called with no window open
\* ends the process with status 1 before it makes any backend call, and no
\* call made with no window open issues a flush, draw, present or load.
C17_NoBackendCallWithoutWindow ==
    [][ ~windowOpen =>
          /\ lastOp' \in WindowDependentOps =>
                 process' = "exit1" /\ lastCalls' = <<>>
          /\ CallsOf(lastCalls') \cap WindowBoundCalls = {}
      ]_vars

\* ------------------------------------------------- order across the batches

BatchKinds == { "point", "line", "text" }

Pending(k) ==
    CASE k = "point" -> points
      [] k = "line" -> lines
      [] k = "text" -> texts

FlushOf(k) ==
    CASE k = "point" -> "sliPointsFlush"
      [] k = "line" -> "sliLinesFlush"
      [] k = "text" -> "sliTextFlush"

KindOf(op) ==
    CASE op = "slPoint" -> "point"
      [] op = "slLine" -> "line"
      [] op = "slText" -> "text"
      [] op = "slSprite" -> "sprite"
      [] OTHER -> "shape"

C19_QueuedUnderBlendInEffect ==
    /\ \A k \in BatchKinds : \A i \in 1 .. Len(Pending(k)) :
           Pending(k)[i].additive = blendAdditive
    /\ (Running /\ lastOp = "slSetAdditiveBlend") => BatchesEmpty

\* --------------------------------------------------------------------- sound

\* C20: slSoundPauseAll issues sliSoundResumeAll and nothing else, as
\* slSoundResumeAll does; no call of any entry point issues sliSoundPauseAll;
\* a sound that plays when slSoundPauseAll is called plays when it returns.
C20_PauseAllResumes ==
    [][ /\ lastOp' \in { "slSoundPauseAll", "slSoundResumeAll" } =>
               lastCalls' = <<"sliSoundResumeAll">>
        /\ "sliSoundPauseAll" \notin CallsOf(lastCalls')
        /\ (lastOp' = "slSoundPauseAll" /\ sound = "playing") => sound' = "playing"
      ]_vars

\* C20 witness: slSoundPauseAll returned in an open window and the sound
\* started before it is still playing.
C20_Witness ==
    /\ Running /\ windowOpen /\ lastOp = "slSoundPauseAll"
    /\ lastCalls = <<"sliSoundResumeAll">> /\ sound = "playing"

====
